---------------------------- MODULE Spec2Model ----------------------------
(***************************************************************************)
(* Model of the pico-mfrc522 firmware: the SPI register-access layer       *)
(* (reg_write / reg_read / cs_select / cs_deselect), the digital self-test *)
(* sequence (self_test) with its start-up in main, and the card allow-list *)
(* loop of example.c.                                                      *)
(*                                                                         *)
(* A register access is not atomic: it is a short sequence of bus steps    *)
(* (chip-select low, blocking write, blocking read, chip-select high), one *)
(* model step each, so that what happens inside and between chip-select    *)
(* windows is visible.  The device is a test double: it answers a read of  *)
(* the FIFO-level register with any value of PollLevels, a read of the     *)
(* FIFO-data register with the next byte of its 64-byte self-test result,  *)
(* and a read of the version register with its version byte.               *)
(***************************************************************************)
EXTENDS Integers, Sequences, FiniteSets, TLC

VARIABLES
    pc,          \* position of the program (main / self_test), or "harness"
    call,        \* per execution context: the register access it is executing
    cs,          \* level of the chip-select line (0 = asserted, active low)
    csBy,        \* the context whose cs_select holds the line low, or "none"
    log,         \* history: the SPI transfers made so far, in order
    mark,        \* history: Len(log) when self_test was entered
    dev,         \* the device on the bus
    devpos,      \* device: number of FIFO-data bytes read out so far
    version,     \* main: uint8_t version
    i,           \* self_test: the loop counter of the current for loop
    polls,       \* self_test: completed polls that answered < 64 (saturates)
    result,      \* self_test: uint8_t result[64], the part written so far
    ret,         \* value self_test returned (uint8_t), -1 before it returns
    test_result, \* main: char test_result, -1 before it is assigned
    ncalls,      \* harness: register accesses started so far
    req,         \* harness: the register operation a caller asks for
    uid,         \* example: mfrc->uid, the UID structure of the reader object
    card,        \* example: the UID of the card now in the field (history)
    status,      \* example: what the last PICC_ReadCardSerial reported
    verdict      \* example: the authentication line last printed

vars == <<pc, call, cs, csBy, log, mark, dev, devpos, version, i, polls,
          result, ret, test_result, ncalls, req, uid, card, status,
          verdict>>

----------------------------------------------------------------------------
(* Bounds of the model.                                                    *)

\* Polls answering < 64 that the history records; later ones are elided.
MaxPolls == 2

\* Register accesses the two-context harness starts in one run.
MaxCalls == 2

----------------------------------------------------------------------------
(* 8-bit arithmetic.                                                       *)

Byte == 0..255

RECURSIVE OrBits(_, _, _)
OrBits(a, b, n) ==
    IF n = 0 THEN 0
    ELSE (IF a % 2 = 1 \/ b % 2 = 1 THEN 1 ELSE 0)
         + 2 * OrBits(a \div 2, b \div 2, n - 1)

\* a | b on uint8_t
BitOr(a, b) == OrBits(a, b, 8)

\* (uint8_t)(a << n)
Shl(a, n) == (a * 2^n) % 256

ToUint8_Signed(x) == x

\* conversion of an int to uint8_t
ToUint8(x) == x % 256

----------------------------------------------------------------------------
(* Program constants.                                                      *)

\* "FIFO buffer byte values for MFRC522 version 2.0", as the header comment
\* of the source documents them: what a working revision-2.0 chip produces.
Version2Bytes ==
    << 0, 235, 102, 186,  87, 191,  35, 149,
     208, 227,  13,  61,  39, 137,  92, 222,
     157,  59, 167,   0,  33,  91, 137, 130,
      81,  58, 235,   2,  12, 165,   0,  73,
     124, 132,  77, 179, 204, 210,  27, 129,
      93,  72, 118, 213, 113,  97,  33, 169,
     134, 150, 131,  56, 207, 157,  91, 109,
     220,  21, 186,  62, 125, 149,  59,  47 >>

\* "FIFO buffer byte values for MFRC522 version 1.0", documented in the same
\* comment; the code carries no table for it.
Version1Bytes ==
    << 0, 198,  55, 213,  50, 183,  87,  92,
     194, 216, 124,  77, 217, 112, 199, 115,
      16, 230, 210, 170,  94, 161,  62,  90,
      20, 175,  48,  97, 201, 112, 219,  46,
     100,  34, 114, 181, 189, 101, 244, 236,
      34, 188, 211, 114,  53, 205, 170,  65,
      31, 167, 243,  83,  20, 222, 126,   2,
     217,  15, 181,  94,  37,  29,  41, 121 >>

\* The table self_test compares the result with.
PROGMEM_Version1 == Version1Bytes
PROGMEM ==
    << 0, 235, 102, 186,  87, 191,  35, 149,
     208, 227,  13,  61,  39, 137,  92, 222,
     157,  59, 167,   0,  33,  91, 137, 130,
      81,  58, 235,   2,  12, 165,   0,  73,
     124, 132,  77, 179, 204, 210,  27, 129,
      93,  72, 118, 213, 113,  97,  33, 169,
     134, 150, 131,  56, 207, 157,  91, 109,
     220,  21, 186,  62, 125, 149,  59,  47 >>

CommandReg   == Shl(1, 1)
FIFODataReg  == Shl(9, 1)
FIFOLevelReg == Shl(10, 1)
AutoTestReg  == Shl(54, 1)
VersionReg_Unshifted == Shl(55, 0)
VersionReg   == Shl(55, 1)

SoftReset      == 15
Mem            == 1
EnableSelfTest == 9
CalcCRC        == 3

\* uint8_t result[64]
ResultLen == 64

\* for (int i = 0; i < 25; i++)
FillMore_OffByOne(k) == k <= 25
FillMore(k) == k < 25

\* if (buf >= 64) self_test_complete = true;
LevelReached_Above(buf) == buf > 64
LevelReached_Exact(buf) == buf = 64
LevelReached(buf) == buf >= 64

\* for (int i = 0; i < 64; i++)
DrainMore(k) == k < ResultLen

----------------------------------------------------------------------------
(* The device.                                                             *)

Contexts == {"main", "other"}

\* What the FIFO-level register may answer: below, at and above 64.
PollLevels == {63, 64, 255}

\* A chip of hardware revision rev whose self-test result differs from its
\* revision's vector at position flip (0..63), or nowhere (flip = -1).
Chip(rev, flip) ==
    [kind |-> "chip", rev |-> rev, flip |-> flip, answers |-> {}]

\* A capturing test double that answers every read with any byte of answers.
Double(answers) ==
    [kind |-> "double", rev |-> 0, flip |-> -1, answers |-> answers]

Devices ==
    {Chip(2, f) : f \in -1..(ResultLen - 1)} \cup {Chip(1, -1), Chip(0, -1)}

\* Byte k (0-based) of the device's self-test result.  A revision-0 "chip"
\* is a dead or miswired one: every byte reads 0.
DevByte(d, k) ==
    LET good == IF d.rev = 2 THEN Version2Bytes[k + 1]
                ELSE IF d.rev = 1 THEN Version1Bytes[k + 1]
                ELSE 0
    IN  IF k >= ResultLen THEN 0
        ELSE IF k = d.flip THEN 255 - good
        ELSE good

\* The version register: 0x91 for revision 1.0, 0x92 for revision 2.0.
DevVersion(d) == IF d.rev = 0 THEN 0 ELSE 144 + d.rev

\* The bytes the device may answer to a read whose header byte was hdr.
DeviceAnswers(hdr) ==
    IF dev.kind = "double" THEN dev.answers
    ELSE IF hdr = BitOr(128, FIFOLevelReg) THEN PollLevels
    ELSE IF hdr = BitOr(128, FIFODataReg) THEN {DevByte(dev, devpos)}
    ELSE IF hdr = BitOr(128, VersionReg) THEN {DevVersion(dev)}
    ELSE {0}

----------------------------------------------------------------------------
(* The bus transaction layer.                                              *)

\* alone: no other context has been inside reg_write / reg_read since this
\* access was entered (history).
NoCall ==
    [op |-> "idle", msg |-> <<>>, ip |-> 1, buf |-> 0, trace |-> <<>>,
     alone |-> TRUE]

\* The statements of reg_write after msg is built, in order.
reg_write_body == <<"cs_select", "spi_write_blocking", "cs_deselect">>

reg_read_body_LateRead ==
    <<"cs_select", "spi_write_blocking", "cs_deselect", "spi_read_blocking">>

\* The statements of reg_read after msg is built, in order.
reg_read_body ==
    <<"cs_select", "spi_write_blocking", "spi_read_blocking", "cs_deselect">>

Body(op) ==
    IF op = "reg_write" THEN reg_write_body
    ELSE IF op = "reg_read" THEN reg_read_body
    ELSE <<>>

reg_write_ReadMode(reg, data) ==
    [op |-> "reg_write", msg |-> <<BitOr(128, reg), data>>, ip |-> 1,
     buf |-> 0, trace |-> <<>>, alone |-> TRUE]

\* Entry of reg_write: msg[0] = 0x00 | reg; msg[1] = data.
reg_write(reg, data) ==
    [op |-> "reg_write", msg |-> <<BitOr(0, reg), data>>, ip |-> 1,
     buf |-> 0, trace |-> <<>>, alone |-> TRUE]

reg_read_NoModeBit(reg, buf) ==
    [op |-> "reg_read", msg |-> <<BitOr(0, reg)>>, ip |-> 1,
     buf |-> buf, trace |-> <<>>, alone |-> TRUE]

\* Entry of reg_read: msg = 0x80 | reg; buf is the caller's *buf.
reg_read(reg, buf) ==
    [op |-> "reg_read", msg |-> <<BitOr(128, reg)>>, ip |-> 1,
     buf |-> buf, trace |-> <<>>, alone |-> TRUE]

\* Context c is not inside reg_write / reg_read.
Idle(c) == call[c].ip > Len(Body(call[c].op))

\* The next statement of context c's register access is stmt.
At(c, stmt) == ~Idle(c) /\ Body(call[c].op)[call[c].ip] = stmt

Advance(c, stmt) ==
    [call[c] EXCEPT !.ip = @ + 1, !.trace = Append(@, stmt)]

\* Context c enters the register access a.
Enter(c, a) ==
    [x \in Contexts |->
        IF x = c
        THEN [a EXCEPT !.alone = \A o \in Contexts \ {c} : Idle(o)]
        ELSE IF Idle(x) THEN call[x]
        ELSE [call[x] EXCEPT !.alone = FALSE]]

\* A transfer on the bus, with the level of chip-select and the owner of the
\* chip-select window at the time.
Transfer(c, t, out, in) ==
    [t |-> t, out |-> out, in |-> in, cs |-> cs, win |-> csBy, by |-> c,
     alone |-> call[c].alone]

cs_select(c) ==
    /\ At(c, "cs_select")
    /\ cs' = 0
    /\ csBy' = c
    /\ call' = [call EXCEPT ![c] = Advance(c, "cs_select")]
    /\ UNCHANGED <<pc, log, mark, dev, devpos, version, i, polls, result,
                   ret, test_result, ncalls, req, uid, card, status, verdict>>

cs_deselect_Low(c) ==
    /\ At(c, "cs_deselect")
    /\ cs' = 0
    /\ csBy' = c
    /\ call' = [call EXCEPT ![c] = Advance(c, "cs_deselect")]
    /\ UNCHANGED <<pc, log, mark, dev, devpos, version, i, polls, result,
                   ret, test_result, ncalls, req, uid, card, status,
                   verdict>>

cs_deselect(c) ==
    /\ At(c, "cs_deselect")
    /\ cs' = 1
    /\ csBy' = "none"
    /\ call' = [call EXCEPT ![c] = Advance(c, "cs_deselect")]
    /\ UNCHANGED <<pc, log, mark, dev, devpos, version, i, polls, result,
                   ret, test_result, ncalls, req, uid, card, status, verdict>>

\* spi_write_blocking(spi, msg, len): every byte of msg goes out, what comes
\* in is discarded.
spi_write_blocking(c) ==
    /\ At(c, "spi_write_blocking")
    /\ log' = Append(log, Transfer(c, "tx", call[c].msg, <<>>))
    /\ call' = [call EXCEPT ![c] = Advance(c, "spi_write_blocking")]
    /\ UNCHANGED <<pc, cs, csBy, mark, dev, devpos, version, i, polls,
                   result, ret, test_result, ncalls, req, uid, card, status, verdict>>

\* spi_read_blocking(spi, 0, buf, 1): drives 0 and stores the byte that
\* comes in into *buf.
spi_read_blocking(c) ==
    /\ At(c, "spi_read_blocking")
    /\ \E v \in DeviceAnswers(call[c].msg[1]) :
          /\ log' = Append(log, Transfer(c, "rx", <<0>>, <<v>>))
          /\ call' = [call EXCEPT
                        ![c] = [Advance(c, "spi_read_blocking")
                                  EXCEPT !.buf = v]]
    /\ devpos' = IF dev.kind = "chip"
                    /\ call[c].msg[1] = BitOr(128, FIFODataReg)
                 THEN devpos + 1 ELSE devpos
    /\ UNCHANGED <<pc, cs, csBy, mark, dev, version, i, polls, result, ret,
                   test_result, ncalls, req, uid, card, status, verdict>>

BusStep(c) ==
    \/ cs_select(c)
    \/ spi_write_blocking(c)
    \/ spi_read_blocking(c)
    \/ cs_deselect(c)

----------------------------------------------------------------------------
(* main and self_test (pico_MFRC522.c), running in context "main".         *)

\* The program calls reg_write / reg_read and continues at next.
Do(access, next) ==
    /\ Idle("main")
    /\ call' = Enter("main", access)
    /\ pc' = next

main_reset_Omitted ==
    /\ pc = "main_reset"
    /\ Idle("main")
    /\ pc' = "main_version"
    /\ UNCHANGED <<call, cs, csBy, log, mark, dev, devpos, version, i,
                   polls, result, ret, test_result, ncalls, req, uid, card,
                   status, verdict>>

main_reset ==
    /\ pc = "main_reset"
    /\ Do(reg_write(CommandReg, SoftReset), "main_version")
    /\ UNCHANGED <<cs, csBy, log, mark, dev, devpos, version, i, polls,
                   result, ret, test_result, ncalls, req, uid, card, status, verdict>>

main_version ==
    /\ pc = "main_version"
    /\ Do(reg_read(VersionReg, 10), "main_self_test")
    /\ UNCHANGED <<cs, csBy, log, mark, dev, devpos, version, i, polls,
                   result, ret, test_result, ncalls, req, uid, card, status, verdict>>

\* version holds the byte read; self_test is entered.
main_self_test ==
    /\ pc = "main_self_test"
    /\ Idle("main")
    /\ version' = call["main"].buf
    /\ mark' = Len(log)
    /\ pc' = "st_reset"
    /\ UNCHANGED <<call, cs, csBy, log, dev, devpos, i, polls, result, ret,
                   test_result, ncalls, req, uid, card, status, verdict>>

st_reset ==
    /\ pc = "st_reset"
    /\ Do(reg_write(CommandReg, SoftReset), "st_flush")
    /\ UNCHANGED <<cs, csBy, log, mark, dev, devpos, version, i, polls,
                   result, ret, test_result, ncalls, req, uid, card, status, verdict>>

st_flush ==
    /\ pc = "st_flush"
    /\ Do(reg_write(FIFOLevelReg, 128), "st_fill")
    /\ i' = 0
    /\ UNCHANGED <<cs, csBy, log, mark, dev, devpos, version, polls, result,
                   ret, test_result, ncalls, req, uid, card, status, verdict>>

\* for (int i = 0; i < 25; i++) reg_write(FIFODataReg, 0x00);
st_fill ==
    /\ pc = "st_fill"
    /\ Idle("main")
    /\ IF FillMore(i)
       THEN /\ Do(reg_write(FIFODataReg, 0), "st_fill")
            /\ i' = i + 1
       ELSE /\ pc' = "st_mem"
            /\ UNCHANGED <<call, i>>
    /\ UNCHANGED <<cs, csBy, log, mark, dev, devpos, version, polls, result,
                   ret, test_result, ncalls, req, uid, card, status, verdict>>

st_mem ==
    /\ pc = "st_mem"
    /\ Do(reg_write(CommandReg, Mem), "st_arm")
    /\ UNCHANGED <<cs, csBy, log, mark, dev, devpos, version, i, polls,
                   result, ret, test_result, ncalls, req, uid, card, status, verdict>>

st_arm ==
    /\ pc = "st_arm"
    /\ Do(reg_write(AutoTestReg, EnableSelfTest), "st_seed")
    /\ UNCHANGED <<cs, csBy, log, mark, dev, devpos, version, i, polls,
                   result, ret, test_result, ncalls, req, uid, card, status, verdict>>

st_seed ==
    /\ pc = "st_seed"
    /\ Do(reg_write(FIFODataReg, 0), "st_crc")
    /\ UNCHANGED <<cs, csBy, log, mark, dev, devpos, version, i, polls,
                   result, ret, test_result, ncalls, req, uid, card, status, verdict>>

st_crc ==
    /\ pc = "st_crc"
    /\ Do(reg_write(CommandReg, CalcCRC), "st_poll")
    /\ UNCHANGED <<cs, csBy, log, mark, dev, devpos, version, i, polls,
                   result, ret, test_result, ncalls, req, uid, card, status, verdict>>

\* while (!self_test_complete) { buf = 0; reg_read(FIFOLevelReg, &buf); ...
st_poll ==
    /\ pc = "st_poll"
    /\ Do(reg_read(FIFOLevelReg, 0), "st_poll_check")
    /\ UNCHANGED <<cs, csBy, log, mark, dev, devpos, version, i, polls,
                   result, ret, test_result, ncalls, req, uid, card, status, verdict>>

\* ... if (buf >= 64) self_test_complete = true; }
\* The loop has no bound.  To keep the history finite, the polls that
\* answered < 64 are recorded only up to MaxPolls of them: a later one
\* leaves log and polls as they were before it.
st_poll_check ==
    /\ pc = "st_poll_check"
    /\ Idle("main")
    /\ IF LevelReached(call["main"].buf)
       THEN /\ pc' = "st_drain"
            /\ i' = 0
            /\ UNCHANGED <<polls, log>>
       ELSE /\ pc' = "st_poll"
            /\ polls' = IF polls < MaxPolls THEN polls + 1 ELSE polls
            /\ log' = IF polls < MaxPolls THEN log
                      ELSE SubSeq(log, 1, Len(log) - 2)
            /\ UNCHANGED i
    /\ UNCHANGED <<call, cs, csBy, mark, dev, devpos, version, result, ret,
                   test_result, ncalls, req, uid, card, status, verdict>>

\* for (int i = 0; i < 64; i++) { buf = 0; reg_read(FIFODataReg, &buf); ...
st_drain ==
    /\ pc = "st_drain"
    /\ Idle("main")
    /\ IF DrainMore(i)
       THEN Do(reg_read(FIFODataReg, 0), "st_store")
       ELSE /\ pc' = "st_disarm"
            /\ UNCHANGED call
    /\ UNCHANGED <<cs, csBy, log, mark, dev, devpos, version, i, polls,
                   result, ret, test_result, ncalls, req, uid, card, status, verdict>>

\* ... result[i] = buf; }
st_store ==
    /\ pc = "st_store"
    /\ Idle("main")
    /\ result' = [k \in 1..(i + 1) |->
                    IF k = i + 1 THEN call["main"].buf ELSE result[k]]
    /\ i' = i + 1
    /\ pc' = "st_drain"
    /\ UNCHANGED <<call, cs, csBy, log, mark, dev, devpos, version, polls,
                   ret, test_result, ncalls, req, uid, card, status, verdict>>

st_disarm_OnPass ==
    /\ pc = "st_disarm"
    /\ IF \A k \in 1..ResultLen : result[k] = PROGMEM[k]
       THEN Do(reg_write(AutoTestReg, 0), "st_verify")
       ELSE /\ Idle("main")
            /\ pc' = "st_verify"
            /\ UNCHANGED call
    /\ UNCHANGED <<cs, csBy, log, mark, dev, devpos, version, i, polls,
                   result, ret, test_result, ncalls, req, uid, card, status, verdict>>

st_disarm ==
    /\ pc = "st_disarm"
    /\ Do(reg_write(AutoTestReg, 0), "st_verify")
    /\ UNCHANGED <<cs, csBy, log, mark, dev, devpos, version, i, polls,
                   result, ret, test_result, ncalls, req, uid, card, status, verdict>>

\* for (uint8_t i = 0; i < 64; i++) if (result[i] != PROGMEM[i]) return -1;
\* return 0;
RECURSIVE Compare_Short(_, _)
Compare_Short(r, k) ==
    IF k >= ResultLen - 1 THEN 0
    ELSE IF r[k + 1] # PROGMEM[k + 1] THEN -1
    ELSE Compare_Short(r, k + 1)

RECURSIVE Compare(_, _)
Compare(r, k) ==
    IF k >= ResultLen THEN 0
    ELSE IF r[k + 1] # PROGMEM[k + 1] THEN -1
    ELSE Compare(r, k + 1)

\* self_test returns: the int is converted to the uint8_t return type.
st_verify ==
    /\ pc = "st_verify"
    /\ Idle("main")
    /\ ret' = ToUint8(Compare(result, 0))
    /\ pc' = "main_result"
    /\ UNCHANGED <<call, cs, csBy, log, mark, dev, devpos, version, i,
                   polls, result, test_result, ncalls, req, uid, card, status, verdict>>

\* char test_result = self_test(...); then main sleeps forever.
main_result ==
    /\ pc = "main_result"
    /\ test_result' = ret
    /\ pc' = "main_loop"
    /\ UNCHANGED <<call, cs, csBy, log, mark, dev, devpos, version, i,
                   polls, result, ret, ncalls, req, uid, card, status, verdict>>

Program ==
    \/ main_reset \/ main_version \/ main_self_test
    \/ st_reset \/ st_flush \/ st_fill \/ st_mem \/ st_arm \/ st_seed
    \/ st_crc \/ st_poll \/ st_poll_check \/ st_drain \/ st_store
    \/ st_disarm \/ st_verify \/ main_result

\* Logical register addresses of the chip.
Registers == 0..63

NoReq == [op |-> "none", r |-> 0, d |-> 0]

Requests ==
    {[op |-> "write", r |-> r, d |-> d] : r \in Registers, d \in Byte}
    \cup {[op |-> "read", r |-> r, d |-> 0] : r \in Registers}

\* uint8_t tag1[] = {0x93, 0xE3, 0x9A, 0x92};
tag1 == <<147, 227, 154, 146>>

\* The Uid structure of the reader object: size bytes of uidByte[10] are the
\* UID last read.
NoUid == [size |-> 0, uidByte |-> [k \in 1..10 |-> 0]]

\* Every variable but pc, dev and req, before anything has run:
\* chip-select is high (gpio_put(cs_pin, 1)), nothing has been transferred.
Fresh ==
    /\ call = [c \in Contexts |-> NoCall]
    /\ cs = 1
    /\ csBy = "none"
    /\ log = <<>>
    /\ mark = 0
    /\ devpos = 0
    /\ version = 10
    /\ i = 0
    /\ polls = 0
    /\ result = <<>>
    /\ ret = -1
    /\ test_result = -1
    /\ ncalls = 0
    /\ uid = NoUid
    /\ card = <<>>
    /\ status = "none"
    /\ verdict = "none"

\* After main's initialisation (gpio_put(cs_pin, 1), spi_init): chip-select
\* is high and nothing has been transferred.
Init ==
    /\ pc = "main_reset"
    /\ dev \in Devices
    /\ req = NoReq
    /\ Fresh

Next == Program \/ BusStep("main")

Spec == Init /\ [][Next]_vars

----------------------------------------------------------------------------
(* The bus layer on its own: one caller, any register, any byte.           *)

\* A caller passes the register address shifted left by one, as the
\* register constants of the source are, to reg_write or reg_read.
bus_call ==
    /\ pc = "harness"
    /\ Idle("main")
    /\ call' = Enter("main", IF req.op = "write"
                              THEN reg_write(Shl(req.r, 1), req.d)
                              ELSE reg_read(Shl(req.r, 1), 0))
    /\ pc' = "called"
    /\ UNCHANGED <<cs, csBy, log, mark, dev, devpos, version, i, polls,
                   result, ret, test_result, ncalls, req, uid, card, status, verdict>>

BusInit ==
    /\ pc = "harness"
    /\ dev = Double(Byte)
    /\ req \in Requests
    /\ Fresh

BusNext == bus_call \/ BusStep("main")

BusSpec == BusInit /\ [][BusNext]_vars

----------------------------------------------------------------------------
(* Two execution contexts that share the bus and the chip-select line and  *)
(* call reg_write / reg_read with nothing between them but the code.       *)

ConcAccesses == {reg_write(CommandReg, SoftReset), reg_read(FIFOLevelReg, 0)}

ctx_call(c) ==
    /\ pc = "contexts"
    /\ Idle(c)
    /\ ncalls < MaxCalls
    /\ \E a \in ConcAccesses : call' = Enter(c, a)
    /\ ncalls' = ncalls + 1
    /\ UNCHANGED <<pc, cs, csBy, log, mark, dev, devpos, version, i, polls,
                   result, ret, test_result, req, uid, card, status, verdict>>

ConcInit ==
    /\ pc = "contexts"
    /\ dev = Double({64})
    /\ req = NoReq
    /\ Fresh

ConcNext == \E c \in Contexts : ctx_call(c) \/ BusStep(c)

ConcSpec == ConcInit /\ [][ConcNext]_vars

----------------------------------------------------------------------------
(* The card loop of example.c.  The card functions are not part of the     *)
(* sources at hand; they are modelled as the collaborators the             *)
(* specification describes: IsNewCardPresent() -> bool,                    *)
(* ReadCardSerial(UID&) -> Status.                                         *)

\* The UIDs a card may have: 4 or 7 bytes; each of the first four bytes is
\* the byte of tag1 or another one.
CardUids ==
    LET b(k) == {tag1[k], 255 - tag1[k]}
        heads == {<<w, x, y, z>> : w \in b(1), x \in b(2), y \in b(3),
                                   z \in b(4)}
    IN  heads \cup {h \o <<1, 2, 3>> : h \in heads}

\* ReadCardSerial: on success the UID of the card is stored, size and
\* bytes; on failure the structure is left as it was.
PICC_ReadCardSerial(u, c, ok) ==
    IF ok
    THEN [size |-> Len(c),
          uidByte |-> [k \in 1..10 |-> IF k <= Len(c) THEN c[k]
                                       ELSE u.uidByte[k]]]
    ELSE u

\* memcmp(a, b, n): the sign of the first difference in the first n bytes.
RECURSIVE memcmp(_, _, _)
memcmp(a, b, n) ==
    IF n = 0 THEN 0
    ELSE IF Head(a) # Head(b) THEN (IF Head(a) < Head(b) THEN -1 ELSE 1)
    ELSE memcmp(Tail(a), Tail(b), n - 1)

\* while(!PICC_IsNewCardPresent(mfrc)); -- left when a card is in the field.
ex_wait ==
    /\ pc = "ex_wait"
    /\ card' \in CardUids
    /\ pc' = "ex_select"
    /\ UNCHANGED <<call, cs, csBy, log, mark, dev, devpos, version, i,
                   polls, result, ret, test_result, ncalls, req, uid,
                   status, verdict>>

\* PICC_ReadCardSerial(mfrc); -- what it returns is not looked at.
ex_select ==
    /\ pc = "ex_select"
    /\ \E ok \in BOOLEAN :
          /\ uid' = PICC_ReadCardSerial(uid, card, ok)
          /\ status' = IF ok THEN "ok" ELSE "error"
    /\ pc' = "ex_check"
    /\ UNCHANGED <<call, cs, csBy, log, mark, dev, devpos, version, i,
                   polls, result, ret, test_result, ncalls, req, card,
                   verdict>>

\* if(memcmp(mfrc->uid.uidByte, tag1, 4) == 0) "Authentication Success"
\* else "Authentication Failed"; then the loop starts over.
ex_check ==
    /\ pc = "ex_check"
    /\ verdict' = IF memcmp([k \in 1..10 |-> uid.uidByte[k]], tag1, 4) = 0
                  THEN "Success" ELSE "Failed"
    /\ pc' = "ex_wait"
    /\ UNCHANGED <<call, cs, csBy, log, mark, dev, devpos, version, i,
                   polls, result, ret, test_result, ncalls, req, uid, card,
                   status>>

ExampleInit ==
    /\ pc = "ex_wait"
    /\ dev = Double({})
    /\ req = NoReq
    /\ Fresh

ExampleNext == ex_wait \/ ex_select \/ ex_check

ExampleSpec == ExampleInit /\ [][ExampleNext]_vars

\* The program is the only thread of a single core: whenever it can take a
\* step it takes one.
\* Termination does not depend on which byte of the result is wrong: the
\* devices are the good revision-2.0 chip, one wrong in the first byte, one
\* wrong in the last, the revision-1.0 chip and the dead one.
LiveDevices ==
    {Chip(2, -1), Chip(2, 0), Chip(2, ResultLen - 1), Chip(1, -1),
     Chip(0, -1)}

FairInit ==
    /\ pc = "main_reset"
    /\ dev \in LiveDevices
    /\ req = NoReq
    /\ Fresh

FairSpec == FairInit /\ [][Next]_vars /\ WF_vars(Next)

----------------------------------------------------------------------------
(* What the bus saw.                                                       *)

\* self_test has returned to main.
Returned == pc \in {"main_result", "main_loop"}

\* A transfer as the device sees it: direction, bytes out, bytes in.
Frame(e) == <<e.t, e.out, e.in>>

\* The frame of a register write: one 2-byte blocking write.
WFrame(hdr, data) == <<"tx", <<hdr, data>>, <<>>>>

\* The first frame of a register read: the 1-byte header.
RHead(hdr) == <<"tx", <<hdr>>, <<>>>>

\* The frames self_test has put on the bus since it was entered.
SelfTestFrames ==
    [k \in 1..(Len(log) - mark) |-> Frame(log[mark + k])]

\* Once self_test has returned: byte k (1..64) of the drain, as the device
\* sent it.  The drain's 128 transfers precede the last transfer.
Drained(k) == log[Len(log) - 129 + 2 * k].in[1]

\* The frames of steps 1 to 7 of the self-test procedure: 0x02 is the write
\* header of the command register, 0x14 of FIFO level, 0x12 of FIFO data,
\* 0x6C of auto test.
Preamble ==
    <<WFrame(2, 15), WFrame(20, 128)>>
    \o [k \in 1..25 |-> WFrame(18, 0)]
    \o <<WFrame(2, 1), WFrame(108, 9), WFrame(18, 0), WFrame(2, 3)>>

\* C1: when self_test has returned, the transfers it made are, in order and
\* with nothing else: SoftReset to Command, 0x80 to FIFOLevel, 25 times 0x00
\* to FIFOData, Mem to Command, EnableSelfTest to AutoTest, 0x00 to FIFOData,
\* CalcCRC to Command, n >= 1 reads of FIFOLevel of which exactly the last
\* answered >= 64, 64 reads of FIFOData, 0x00 to AutoTest.
C1_SelfTestSequence ==
    Returned =>
        LET T == SelfTestFrames
            p == Len(Preamble)
            n == (Len(T) - p - 2 * 64 - 1) \div 2
        IN  /\ n >= 1
            /\ Len(T) = p + 2 * n + 2 * 64 + 1
            /\ SubSeq(T, 1, p) = Preamble
            /\ \A j \in 1..n :
                  /\ T[p + 2 * j - 1] = RHead(148)
                  /\ T[p + 2 * j][1] = "rx"
                  /\ T[p + 2 * j][2] = <<0>>
                  /\ (T[p + 2 * j][3][1] >= 64) <=> (j = n)
            /\ \A k \in 1..64 :
                  /\ T[p + 2 * n + 2 * k - 1] = RHead(146)
                  /\ T[p + 2 * n + 2 * k][1] = "rx"
                  /\ T[p + 2 * n + 2 * k][2] = <<0>>
            /\ T[Len(T)] = WFrame(108, 0)

\* self_test has returned after two polls answered < 64 and one >= 64.
C1_Witness == Returned /\ polls = 2 /\ Len(log) - mark = 31 + 6 + 128 + 1

\* C2: every SPI transfer is made while chip-select is low, and every
\* register access is one chip-select window: its first statement is the
\* one cs_select, its last the one cs_deselect, the transfers in between.
C2_Bracketed ==
    /\ \A k \in 1..Len(log) : log[k].cs = 0
    /\ \A c \in Contexts :
          LET tr == call[c].trace
              sel == {k \in 1..Len(tr) : tr[k] = "cs_select"}
              des == {k \in 1..Len(tr) : tr[k] = "cs_deselect"}
          IN  /\ sel = IF tr = <<>> THEN {} ELSE {1}
              /\ des \subseteq {Len(tr)}
              /\ (Idle(c) /\ call[c].op # "idle") =>
                    /\ des = {Len(tr)}
                    /\ Len(tr) >= 3

\* A reg_read and a reg_write have both run to their end.
C2_Witness ==
    /\ Idle("main")
    /\ call["main"].op = "reg_read"
    /\ Len(log) >= 3
    /\ log[Len(log)].t = "rx"
    /\ cs = 1

\* The caller's register access has run to its end.
CallDone == pc = "called" /\ Idle("main")

\* C3: WriteRegister(r, d), for every r in 0..63 and every byte d, makes
\* exactly one transfer, a blocking write of the two bytes [2r, d] (2r is
\* (r << 1) & 0xFE: bit 7 and bit 0 are 0), inside one chip-select window.
C3_WriteFrame ==
    (CallDone /\ req.op = "write") =>
        /\ Len(log) = 1
        /\ Frame(log[1]) = WFrame(2 * req.r, req.d)
        /\ log[1].out[1] < 128
        /\ log[1].out[1] % 2 = 0
        /\ log[1].cs = 0
        /\ call["main"].trace =
              <<"cs_select", "spi_write_blocking", "cs_deselect">>

\* WriteRegister(63, 255) has been carried out.
C3_Witness ==
    /\ CallDone
    /\ req = [op |-> "write", r |-> 63, d |-> 255]
    /\ Len(log) = 1

\* C4: ReadRegister(r), for every r in 0..63, makes exactly two transfers in
\* one chip-select window: a write of the one byte 0x80 + 2r, then a read of
\* one byte with 0 driven out; the caller's buf is the byte that came in.
C4_ReadFrame ==
    (CallDone /\ req.op = "read") =>
        /\ Len(log) = 2
        /\ Frame(log[1]) = RHead(128 + 2 * req.r)
        /\ log[2].t = "rx"
        /\ log[2].out = <<0>>
        /\ Len(log[2].in) = 1
        /\ call["main"].buf = log[2].in[1]
        /\ log[1].cs = 0 /\ log[2].cs = 0
        /\ call["main"].trace =
              <<"cs_select", "spi_write_blocking", "spi_read_blocking",
                "cs_deselect">>

\* ReadRegister(63) has delivered the byte 255 the device answered.
C4_Witness ==
    /\ CallDone
    /\ req.op = "read" /\ req.r = 63
    /\ Len(log) = 2
    /\ log[2].in = <<255>>
    /\ call["main"].buf = 255

\* Context c has asserted chip-select and not yet deasserted it.
InFlight(c) == ~Idle(c) /\ call[c].ip > 1

\* C8 as claimed: with two contexts that call reg_write / reg_read on the
\* same bus, the chip-select bracketing alone keeps at most one transaction
\* in flight and every transfer inside the window of its own call.
C8_BracketingExcludes ==
    /\ Cardinality({c \in Contexts : InFlight(c)}) <= 1
    /\ \A k \in 1..Len(log) : log[k].win = log[k].by

\* C8 as amended: a transfer of a register access during which no other
\* context has been inside reg_write / reg_read is made with chip-select
\* low, in the window its own access opened, and then no other transaction
\* is in flight.
C8_SerialisedExcludes ==
    /\ \A k \in 1..Len(log) :
          log[k].alone => (log[k].cs = 0 /\ log[k].win = log[k].by)
    /\ \A c \in Contexts :
          (InFlight(c) /\ call[c].alone) =>
              /\ \A o \in Contexts \ {c} : ~InFlight(o)
              /\ cs = 0 /\ csBy = c

\* Both contexts have made a register access, one after the other, neither
\* entered while the other was inside its own.
C8_Witness ==
    /\ Len(log) >= 3
    /\ \A k \in 1..Len(log) : log[k].alone
    /\ \E k \in 1..Len(log) : log[k].by = "other"
    /\ \E k \in 1..Len(log) : log[k].by = "main"

\* C5: if the 64 bytes the device sent during the drain are the documented
\* revision-2.0 vector, self_test returns 0 (Pass).
C5_GoldenPasses ==
    (Returned /\ \A k \in 1..64 : Drained(k) = Version2Bytes[k]) => ret = 0

\* self_test has returned from a drain of the revision-2.0 vector.
C5_Witness ==
    Returned /\ ret = 0 /\ \A k \in 1..64 : Drained(k) = Version2Bytes[k]

\* C6: if the drained bytes differ from the revision-2.0 vector at one or
\* more positions, self_test does not return Pass: it returns Fail (nonzero).
C6_MismatchFails ==
    (Returned /\ \E k \in 1..64 : Drained(k) # Version2Bytes[k]) => ret # 0

\* self_test has returned Fail from a drain whose only wrong byte is the
\* last one, position 63.
C6_Witness ==
    /\ Returned
    /\ ret # 0
    /\ Drained(64) # Version2Bytes[64]
    /\ \A k \in 1..63 : Drained(k) = Version2Bytes[k]

\* Some poll of the FIFO-level register has answered >= 64.
LevelAnswered ==
    \E k \in 2..Len(log) :
        /\ Frame(log[k - 1]) = RHead(148)
        /\ log[k].t = "rx"
        /\ log[k].in[1] >= 64

\* C7: if the FIFO-level register never answers >= 64, self_test still
\* returns, with a Timeout outcome that is neither Pass (0) nor Mismatch
\* (255).  "Never answers >= 64" is the negation of <>LevelAnswered, so the
\* claim is: eventually the level is answered or self_test has timed out.
C7_TimesOut == <>(LevelAnswered \/ (Returned /\ ret \notin {0, 255}))

\* The writes of 0x00 to the auto-test register made so far.
Disarms == {k \in 1..Len(log) : Frame(log[k]) = WFrame(108, 0)}

\* An iteration of the card loop has printed its verdict for the card in
\* the field.
Judged == pc = "ex_wait" /\ verdict # "none"

\* C9: when the UID of the card was read, the verdict is Success exactly
\* when that UID is, byte for byte and in length, the reference UID tag1.
C9_ExactUidMatch ==
    (Judged /\ status = "ok") => ((verdict = "Success") <=> (card = tag1))

\* C10: the write of 0x00 to the auto-test register is never made twice, and
\* when self_test returns, with either outcome, it has been made exactly
\* once, as the transfer right after the 64th FIFO-data read.
C10_DisarmOnce ==
    /\ Cardinality(Disarms) <= 1
    /\ Returned =>
          /\ Disarms = {Len(log)}
          /\ Frame(log[Len(log) - 2]) = RHead(146)
          /\ log[Len(log) - 1].t = "rx"
          /\ Len(result) = 64

\* self_test has returned Fail on a mismatch at position 0, disarm done.
C10_Witness ==
    /\ Returned
    /\ ret # 0
    /\ Drained(1) # Version2Bytes[1]
    /\ Disarms = {Len(log)}


\* C11: once some poll of the FIFO-level register has answered >= 64,
\* self_test returns; what it returns is 0 (Pass) or 255 (Fail) and nothing
\* else, and before it returns the caller has no value from it at all.
C11_ReturnsPassOrFail ==
    /\ LevelAnswered ~> Returned
    /\ [](Returned => ret \in {0, 255})
    /\ [](~Returned => (ret = -1 /\ test_result = -1))

\* self_test has returned Pass after polls that answered < 64 and one that
\* answered >= 64.
C11_Witness == Returned /\ LevelAnswered /\ polls >= 1 /\ ret = 0

\* The places in the self-test frames of a FIFO-level answer >= 64.
DoneAnswers ==
    {k \in 2..(Len(log) - mark) :
        /\ Frame(log[mark + k - 1]) = RHead(148)
        /\ log[mark + k].t = "rx"
        /\ log[mark + k].in[1] >= 64}

\* C12: a FIFO-data read is made only after a FIFO-level read has answered
\* >= 64; until one has, everything after the CalcCRC write is a FIFO-level
\* read; and the first answer >= 64 ends the polling: it is the only one,
\* and the transfer after it is the header of the first FIFO-data read.
C12_DrainAfterLevel ==
    LET n == Len(log) - mark
        p == Len(Preamble)
        F(k) == Frame(log[mark + k])
        D == DoneAnswers
    IN  /\ \A k \in 1..n : F(k) = RHead(146) => \E j \in D : j < k
        /\ D = {} =>
              \A k \in (p + 1)..n :
                  \/ F(k) = RHead(148)
                  \/ F(k)[1] = "rx" /\ F(k - 1) = RHead(148)
                                    /\ F(k)[3][1] \in 0..63
        /\ Cardinality(D) <= 1
        /\ \A j \in D : j < n => F(j + 1) = RHead(146)

\* Two polls answered 63, the third exactly 64, and the header of the first
\* FIFO-data read has just gone out.
C12_Witness ==
    /\ polls = 2
    /\ Len(log) - mark = Len(Preamble) + 6 + 1
    /\ log[Len(log) - 1].in = <<64>>
    /\ Frame(log[Len(log)]) = RHead(146)


\* C13: the result is compared with the vector of the revision the version
\* register reported: a chip that reported 0x91 and drained the
\* revision-1.0 vector, or reported 0x92 and drained the revision-2.0
\* vector, gets Pass.
C13_VectorOfRevision ==
    (/\ Returned
     /\ \/ version = 145 /\ \A k \in 1..64 : Drained(k) = Version1Bytes[k]
        \/ version = 146 /\ \A k \in 1..64 : Drained(k) = Version2Bytes[k])
    => ret = 0

\* C14: every header byte put on the bus (the first byte of every blocking
\* write) has bit 0 clear, the address of one of the five registers in bits
\* 6..1, and bit 7 set exactly when the access is a read (a one-byte write
\* followed by the read) and clear when it is a write (a two-byte write);
\* the headers are 0x02, 0x14, 0x12, 0x6C for writes and 0x94, 0x92, 0xEE
\* for reads, and no others.
C14_Headers ==
    \A k \in 1..Len(log) :
        IF log[k].t = "tx"
        THEN LET h == log[k].out[1]
             IN  /\ h % 2 = 0
                 /\ (h \div 2) % 64 \in {1, 9, 10, 54, 55}
                 /\ (h >= 128) <=> (Len(log[k].out) = 1)
                 /\ (h < 128) <=> (Len(log[k].out) = 2)
                 /\ h \in {2, 20, 18, 108, 148, 146, 238}
                 /\ (h \in {2, 20, 18, 108}) <=> (Len(log[k].out) = 2)
        ELSE /\ k > 1
             /\ log[k - 1].t = "tx"
             /\ log[k - 1].out[1] >= 128

\* self_test has returned and all seven headers have been on the bus.
C14_Witness ==
    /\ Returned
    /\ {log[k].out[1] : k \in {j \in 1..Len(log) : log[j].t = "tx"}}
          = {2, 20, 18, 108, 148, 146, 238}

\* main is past its start-up: self_test has been entered.
InSelfTest == pc \notin {"main_reset", "main_version", "main_self_test"}

\* C15: before self_test is entered main makes exactly two accesses, the
\* SoftReset write to the command register and then the read of the version
\* register, whose byte is version; the version register is read nowhere
\* else; and the first transfer of self_test is its own SoftReset write.
C15_StartUp ==
    /\ \A k \in 1..Len(log) : Frame(log[k]) = RHead(238) => k = 2
    /\ ~InSelfTest => Len(log) <= 3
    /\ InSelfTest =>
          /\ mark = 3
          /\ Frame(log[1]) = WFrame(2, 15)
          /\ Frame(log[2]) = RHead(238)
          /\ log[3].t = "rx"
          /\ version = log[3].in[1]
          /\ Len(log) > mark => Frame(log[mark + 1]) = WFrame(2, 15)

\* self_test has returned on a chip whose version register read 0x92.
C15_Witness == Returned /\ mark = 3 /\ version = 146 /\ Len(log) > 100

\* C16: what self_test returns is a value of 0..255: 0 when all 64 bytes of
\* result equal the table, and 255, the int -1 converted to uint8_t, when
\* one does not; never a negative value.
C16_StatusByte ==
    Returned =>
        /\ ret \in Byte
        /\ (\A k \in 1..64 : result[k] = PROGMEM[k]) => ret = 0
        /\ (\E k \in 1..64 : result[k] # PROGMEM[k]) => ret = 255

\* self_test has returned Fail, as 255, for a result wrong in its last byte.
C16_Witness ==
    /\ Returned
    /\ ret = 255
    /\ result[64] # PROGMEM[64]
    /\ \A k \in 1..63 : result[k] = PROGMEM[k]

\* C17: whenever the program is not inside reg_write / reg_read, chip-select
\* is high and no window is open: at the start, between any two accesses,
\* and when self_test has returned.
C17_IdleHigh == Idle("main") => (cs = 1 /\ csBy = "none")

\* Between the 10th and the 11th write of the fill loop chip-select is high.
C17_Witness ==
    /\ pc = "st_fill" /\ i = 10
    /\ Idle("main")
    /\ call["main"].op = "reg_write"
    /\ cs = 1

\* C18: an iteration whose PICC_ReadCardSerial reported a failure does not
\* print Authentication Success.
C18_NoSuccessOnFailedRead ==
    (Judged /\ status = "error") => verdict # "Success"

=============================================================================
